---- MODULE Spec2Model ----
(***************************************************************************)
(* Climate-Agri Shield (src/app.py): the Streamlit script that derives the *)
(* scenario feature vectors of a country's latest record, calls the risk   *)
(* classifier and the yield regressor, and labels the scenario.            *)
(*                                                                         *)
(* Units.  Reals are scaled to integers:                                   *)
(*   temperatures       tenths of a degree C  (slider step 0.5 = 5)        *)
(*   gdp_delta          whole percent         (the slider is an int)       *)
(*   probabilities      hundredths            (0.65 = 65, 1.0 = 100)       *)
(*   GDP_current_US     units of 1e8 USD, baselines multiples of 100, so   *)
(*                      gdp * (1 + gdp_delta / 100) is an integer          *)
(* An optional value (Python None / unassigned name) is the empty           *)
(* sequence, a present one a one-element sequence.                         *)
(***************************************************************************)
EXTENDS Integers, Sequences, FiniteSets, TLC

VARIABLES
    df,            \* load_data(): the rows of the CSV, in file order
    risk_model,    \* load_models()[0]
    yield_model,   \* load_models()[1]
    sort_kind,     \* how this build's quicksort orders rows of equal Year
    ran,           \* the script has run at least once in this session
    country,       \* sidebar selectbox
    temp_delta,    \* sidebar slider
    gdp_delta,     \* sidebar slider
    country_df,    \* rows of the country, sorted by Year
    latest,        \* country_df.iloc[-1]
    risk_input,    \* feature vector handed to the classifier
    yield_input,   \* feature vector handed to the regressor
    metrics,       \* the header's three metrics
    risk_prob,     \* predict_proba(...)[0][1]
    yield_pred,    \* predict(...)[0]
    risk_label,    \* result of the LOGICAL RISK FRAMEWORK
    rendered,      \* page elements this run has drawn
    error,         \* the exception that halted this run, or "none"
    risk_calls,    \* calls of risk_model.predict_proba in this run
    yield_calls    \* calls of yield_model.predict in this run

vars == <<df, risk_model, yield_model, sort_kind, ran, country, temp_delta,
          gdp_delta, country_df, latest, risk_input, yield_input, metrics,
          risk_prob, yield_pred, risk_label, rendered, error, risk_calls,
          yield_calls>>

(***************************************************************************)
(* Bounds of the model.                                                    *)
(***************************************************************************)
MaxRows == 2
TempOver == 3
GdpOver == 3

(***************************************************************************)
(* Program constants.                                                      *)
(***************************************************************************)
TempSliderMin == -20
TempSliderMax == 40
TempSliderStep == 5
TempSliderDefault == 0
GdpSliderMin == -20
GdpSliderMax == 30
GdpSliderStep == 5
GdpSliderDefault == 0
HighThreshold == 65
LowThreshold == 35
GdpBoost == 10
ProbOne == 100
Percent == 100

RISK_FEATURES ==
    {"Area_Harvested", "Production_Tonnes", "Avg_Temp", "Temp_Volatility",
     "GDP_current_US", "political_stability_estimate", "Inflation",
     "CO2_emisions", "Agri_Land_Percent", "Forest_Land_Percent", "population"}

YIELD_FEATURES == {"Avg_Temp", "Temp_Volatility", "GDP_current_US"}

TempSlider ==
    {t \in TempSliderMin..TempSliderMax : (t - TempSliderMin) % TempSliderStep = 0}

GdpSlider ==
    {g \in GdpSliderMin..GdpSliderMax : (g - GdpSliderMin) % GdpSliderStep = 0}

(***************************************************************************)
(* The Record Store: every CSV of at most MaxRows rows over two countries, *)
(* one with two years on record and one with a single year.  Rows may      *)
(* repeat a (Country, Year) pair and come in any order: the code checks    *)
(* neither.  The indicators of a row are those of its place in the file,   *)
(* so that two rows of one file never agree on any indicator.              *)
(***************************************************************************)
Countries == <<"Kenya", "Peru">>

Years == {2019, 2020}

NoCountry == "None"

ProfileA ==
    [Area_Harvested |-> 500, Production_Tonnes |-> 1200, Avg_Temp |-> 200,
     Temp_Volatility |-> 4, GDP_current_US |-> 1000,
     political_stability_estimate |-> -1, Inflation |-> 6,
     CO2_emisions |-> 30, Agri_Land_Percent |-> 48,
     Forest_Land_Percent |-> 7, population |-> 530]

ProfileB ==
    [Area_Harvested |-> 310, Production_Tonnes |-> 990, Avg_Temp |-> 231,
     Temp_Volatility |-> 9, GDP_current_US |-> 2500,
     political_stability_estimate |-> 2, Inflation |-> -3,
     CO2_emisions |-> 55, Agri_Land_Percent |-> 19,
     Forest_Land_Percent |-> 57, population |-> 330]

ProfileAt(i) == IF i % 2 = 1 THEN ProfileA ELSE ProfileB

Range(s) == {s[i] : i \in 1..Len(s)}

Keys ==
    {k \in [Country : Range(Countries), Year : Years] :
        k.Country = Countries[1] \/ k.Year = 2020}

AllRows == {k @@ p : k \in Keys, p \in {ProfileA, ProfileB}}

Datasets ==
    UNION {{[i \in 1..n |-> k[i] @@ ProfileAt(i)] : k \in [1..n -> Keys]} :
              n \in 0..MaxRows}

\* two rows of one country and one year: their order after the sort is the
\* sorting algorithm's choice
HasTies(d) ==
    \E i, j \in 1..Len(d) :
        i # j /\ d[i].Country = d[j].Country /\ d[i].Year = d[j].Year

(***************************************************************************)
(* The models: opaque artefacts with predict_proba / predict.  A model     *)
(* either raises, returns a constant, or answers from the features.        *)
(***************************************************************************)
RiskModels ==
    { [kind |-> "raises", p |-> 0],
      [kind |-> "const", p |-> -5],
      [kind |-> "const", p |-> 105],
      [kind |-> "features", p |-> 0] }

YieldModels ==
    { [kind |-> "raises"], [kind |-> "features"] }

predict_proba(m, x) ==
    CASE m.kind = "raises" -> [ok |-> FALSE, val |-> 0]
      [] m.kind = "const" -> [ok |-> TRUE, val |-> m.p]
      [] OTHER ->
            [ok |-> TRUE,
             val |-> IF x.Avg_Temp > 215 THEN 80
                     ELSE IF x.GDP_current_US > 1100 THEN 30 ELSE 50]

predict(m, x) ==
    CASE m.kind = "raises" -> [ok |-> FALSE, val |-> 0]
      [] OTHER ->
            [ok |-> TRUE,
             val |-> x.GDP_current_US \div 100 + x.Temp_Volatility
                     - x.Avg_Temp \div 100]

(***************************************************************************)
(* SIDEBAR: the selectbox offers sorted(df["Country"].unique()) and starts *)
(* on its first option; with no option it returns None.                    *)
(***************************************************************************)
UniqueCountries(d) == {d[i].Country : i \in 1..Len(d)}

DefaultCountry(d) ==
    IF UniqueCountries(d) = {} THEN NoCountry
    ELSE Countries[CHOOSE i \in 1..Len(Countries) :
                      /\ Countries[i] \in UniqueCountries(d)
                      /\ \A j \in 1..(i - 1) : Countries[j] \notin UniqueCountries(d)]

(***************************************************************************)
(* DATA PREP: df[df["Country"] == country].sort_values("Year").iloc[-1]    *)
(***************************************************************************)
CountryRows(d, c) == SelectSeq(d, LAMBDA r : r.Country = c)

\* r placed into the sorted sequence s: behind the rows of equal Year when the
\* sort keeps their order, before them when it reverses it.
InsertByYear(s, r, kind) ==
    LET k == Cardinality({i \in 1..Len(s) :
                            IF kind = "stable" THEN s[i].Year <= r.Year
                                               ELSE s[i].Year < r.Year})
    IN  SubSeq(s, 1, k) \o <<r>> \o SubSeq(s, k + 1, Len(s))

RECURSIVE SortFrom(_, _, _)
SortFrom(rows, done, kind) ==
    IF Len(rows) = 0 THEN done
    ELSE SortFrom(Tail(rows), InsertByYear(done, Head(rows), kind), kind)

SortValuesUnsorted(rows, kind) == rows

SortValues(rows, kind) == SortFrom(rows, <<>>, kind)

IlocFallback(cdf) ==
    IF Len(cdf) = 0 THEN [ok |-> TRUE, val |-> CHOOSE r \in AllRows : TRUE]
    ELSE [ok |-> TRUE, val |-> cdf[Len(cdf)]]

\* country_df.iloc[-1]: IndexError on an empty frame
IlocLast(cdf) ==
    IF Len(cdf) = 0 THEN [ok |-> FALSE, val |-> CHOOSE r \in AllRows : TRUE]
    ELSE [ok |-> TRUE, val |-> cdf[Len(cdf)]]

\* gdp * (1 + gdp_delta / 100), true division
ScaleGdp(gdp, g) == (gdp * (Percent + g)) \div Percent

Clamp(x, lo, hi) == IF x < lo THEN lo ELSE IF x > hi THEN hi ELSE x

RiskInputClamped(lat, t, g) ==
    LET base == [f \in RISK_FEATURES |-> lat[f]]
    IN  [base EXCEPT
            !["Avg_Temp"] = @ + Clamp(t, TempSliderMin, TempSliderMax),
            !["GDP_current_US"] =
                ScaleGdp(@, Clamp(g, GdpSliderMin, GdpSliderMax))]

RiskInputAccumulated(lat, t, g) ==
    LET base == IF risk_input = <<>> THEN [f \in RISK_FEATURES |-> lat[f]]
                ELSE risk_input[1]
    IN  [base EXCEPT !["Avg_Temp"] = @ + t,
                     !["GDP_current_US"] = ScaleGdp(@, g)]

RiskInput(lat, t, g) ==
    LET base == [f \in RISK_FEATURES |-> lat[f]]
    IN  [base EXCEPT !["Avg_Temp"] = @ + t,
                     !["GDP_current_US"] = ScaleGdp(@, g)]

YieldInputWrongKey(lat, t, g) ==
    LET base == [f \in YIELD_FEATURES |-> lat[f]]
    IN  [base EXCEPT !["Avg_Temp"] = @ + t,
                     !["Temp_Volatility"] = @ + t,
                     !["GDP_current_US"] = ScaleGdp(@, g)]

YieldInput(lat, t, g) ==
    LET base == [f \in YIELD_FEATURES |-> lat[f]]
    IN  [base EXCEPT !["Avg_Temp"] = @ + t,
                     !["GDP_current_US"] = ScaleGdp(@, g)]

\* HEADER: the metrics read the record, not the feature vectors
HeaderMetrics(lat) ==
    [Avg_Temp |-> lat.Avg_Temp, GDP |-> lat.GDP_current_US,
     population |-> lat.population]

(***************************************************************************)
(* LOGICAL RISK FRAMEWORK                                                  *)
(***************************************************************************)
RiskLabelHighNoWarming(p, t, g) ==
    IF p > HighThreshold /\ t >= 0 THEN "HIGH_RISK"
    ELSE IF p <= LowThreshold /\ t <= 0 /\ g >= GdpBoost THEN "LOW_RISK"
    ELSE "STABLE"

RiskLabelLowLoose(p, t, g) ==
    IF p >= HighThreshold /\ t > 0 THEN "HIGH_RISK"
    ELSE IF p < LowThreshold /\ g > GdpBoost THEN "LOW_RISK"
    ELSE "STABLE"

HighRiskBranch(p, t, g) == p >= HighThreshold /\ t > 0

LowRiskBranchOverlapping(p, t, g) == p <= HighThreshold /\ g >= GdpBoost

LowRiskBranch(p, t, g) == p <= LowThreshold /\ t <= 0 /\ g >= GdpBoost

RiskLabel(p, t, g) ==
    IF HighRiskBranch(p, t, g) THEN "HIGH_RISK"
    ELSE IF LowRiskBranch(p, t, g) THEN "LOW_RISK"
    ELSE "STABLE"

\* st.progress(value): a float outside [0.0, 1.0] raises StreamlitAPIException
ProgressAccepts(p) == 0 <= p /\ p <= ProbOne

(***************************************************************************)
(* PREDICTIONS: the two model calls, the label, and what is drawn.  An     *)
(* exception halts the script where it is raised: the names assigned and   *)
(* the elements drawn before it stay, nothing after it happens.            *)
(***************************************************************************)
PredictionsLabelFirst(ri, yi, t, g) ==
    LET rp == predict_proba(risk_model, ri)
        yp == predict(yield_model, yi)
    IN  IF ~rp.ok
        THEN [risk_prob |-> <<>>, yield_pred |-> <<>>, risk_label |-> "none",
              drawn |-> {}, error |-> "ModelError",
              risk_calls |-> 1, yield_calls |-> 0]
        ELSE IF ~yp.ok
        THEN [risk_prob |-> <<rp.val>>, yield_pred |-> <<>>,
              risk_label |-> RiskLabel(rp.val, t, g),
              drawn |-> {"label"}, error |-> "ModelError",
              risk_calls |-> 1, yield_calls |-> 1]
        ELSE [risk_prob |-> <<rp.val>>, yield_pred |-> <<yp.val>>,
              risk_label |-> RiskLabel(rp.val, t, g),
              drawn |-> IF ProgressAccepts(rp.val)
                        THEN {"label", "progress", "yield", "trends"}
                        ELSE {"label"},
              error |-> IF ProgressAccepts(rp.val) THEN "none"
                        ELSE "StreamlitAPIException",
              risk_calls |-> 1, yield_calls |-> 1]

Predictions(ri, yi, t, g) ==
    LET rp == predict_proba(risk_model, ri)
        yp == predict(yield_model, yi)
    IN  IF ~rp.ok
        THEN [risk_prob |-> <<>>, yield_pred |-> <<>>, risk_label |-> "none",
              drawn |-> {}, error |-> "ModelError",
              risk_calls |-> 1, yield_calls |-> 0]
        ELSE IF ~yp.ok
        THEN [risk_prob |-> <<rp.val>>, yield_pred |-> <<>>,
              risk_label |-> "none",
              drawn |-> {}, error |-> "ModelError",
              risk_calls |-> 1, yield_calls |-> 1]
        ELSE [risk_prob |-> <<rp.val>>, yield_pred |-> <<yp.val>>,
              risk_label |-> RiskLabel(rp.val, t, g),
              drawn |-> IF ProgressAccepts(rp.val)
                        THEN {"label", "progress", "yield", "trends"}
                        ELSE {"label"},
              error |-> IF ProgressAccepts(rp.val) THEN "none"
                        ELSE "StreamlitAPIException",
              risk_calls |-> 1, yield_calls |-> 1]

(***************************************************************************)
(* One run of the script, top to bottom, with the widgets at (c, t, g).    *)
(***************************************************************************)
Script(c, t, g) ==
    LET cdf == SortValues(CountryRows(df, c), sort_kind)
        lat == IlocLast(cdf)
    IN  IF ~lat.ok
        THEN [country_df |-> cdf, latest |-> <<>>, risk_input |-> <<>>,
              yield_input |-> <<>>, metrics |-> <<>>, risk_prob |-> <<>>,
              yield_pred |-> <<>>, risk_label |-> "none",
              rendered |-> {"sidebar"}, error |-> "IndexError",
              risk_calls |-> 0, yield_calls |-> 0]
        ELSE LET ri == RiskInput(lat.val, t, g)
                 yi == YieldInput(lat.val, t, g)
                 pr == Predictions(ri, yi, t, g)
             IN  [country_df |-> cdf, latest |-> <<lat.val>>,
                  risk_input |-> <<ri>>, yield_input |-> <<yi>>,
                  metrics |-> <<HeaderMetrics(lat.val)>>,
                  risk_prob |-> pr.risk_prob, yield_pred |-> pr.yield_pred,
                  risk_label |-> pr.risk_label,
                  rendered |-> {"sidebar", "header", "overview"} \cup pr.drawn,
                  error |-> pr.error,
                  risk_calls |-> pr.risk_calls, yield_calls |-> pr.yield_calls]

Run(c, t, g) ==
    \E o \in {Script(c, t, g)} :
        /\ ran' = TRUE
        /\ country' = c
        /\ temp_delta' = t
        /\ gdp_delta' = g
        /\ country_df' = o.country_df
        /\ latest' = o.latest
        /\ risk_input' = o.risk_input
        /\ yield_input' = o.yield_input
        /\ metrics' = o.metrics
        /\ risk_prob' = o.risk_prob
        /\ yield_pred' = o.yield_pred
        /\ risk_label' = o.risk_label
        /\ rendered' = o.rendered
        /\ error' = o.error
        /\ risk_calls' = o.risk_calls
        /\ yield_calls' = o.yield_calls
        /\ UNCHANGED <<df, risk_model, yield_model, sort_kind>>

\* nothing computed or drawn yet
Idle ==
    /\ ran = FALSE
    /\ country_df = <<>>
    /\ latest = <<>>
    /\ risk_input = <<>>
    /\ yield_input = <<>>
    /\ metrics = <<>>
    /\ risk_prob = <<>>
    /\ yield_pred = <<>>
    /\ risk_label = "none"
    /\ rendered = {}
    /\ error = "none"
    /\ risk_calls = 0
    /\ yield_calls = 0

(***************************************************************************)
(* The session: the data and the models are loaded once, the script runs,  *)
(* and every interaction with a widget runs it again.                      *)
(***************************************************************************)
Init ==
    /\ df \in Datasets
    /\ risk_model \in RiskModels
    /\ yield_model \in YieldModels
    /\ sort_kind \in (IF HasTies(df) THEN {"stable", "reversing"} ELSE {"stable"})
    /\ country = DefaultCountry(df)
    /\ temp_delta = TempSliderDefault
    /\ gdp_delta = GdpSliderDefault
    /\ Idle

FirstRun ==
    /\ ~ran
    /\ Run(country, temp_delta, gdp_delta)

SelectCountry ==
    /\ ran
    /\ \E c \in UniqueCountries(df) : Run(c, temp_delta, gdp_delta)

SlideTemp ==
    /\ ran
    /\ \E t \in TempSlider : Run(country, t, gdp_delta)

SlideGdp ==
    /\ ran
    /\ \E g \in GdpSlider : Run(country, temp_delta, g)

Rerun ==
    /\ ran
    /\ Run(country, temp_delta, gdp_delta)

Next == FirstRun \/ SelectCountry \/ SlideTemp \/ SlideGdp \/ Rerun

Spec == Init /\ [][Next]_vars

(***************************************************************************)
(* The Scenario Builder as a function: any record, any shock in and        *)
(* around the sliders' ranges.                                             *)
(***************************************************************************)
TempDomain == (TempSliderMin - TempOver)..(TempSliderMax + TempOver)

GdpDomain == (GdpSliderMin - GdpOver)..(GdpSliderMax + GdpOver)

Unloaded ==
    /\ df = <<>>
    /\ risk_model = [kind |-> "raises", p |-> 0]
    /\ yield_model = [kind |-> "raises"]
    /\ sort_kind = "stable"
    /\ country = NoCountry

InitBuild ==
    /\ Unloaded
    /\ ran = FALSE
    /\ temp_delta \in TempDomain
    /\ gdp_delta \in GdpDomain
    /\ country_df = <<>>
    /\ latest \in {<<r>> : r \in AllRows}
    /\ risk_input = <<>>
    /\ yield_input = <<>>
    /\ metrics = <<>>
    /\ risk_prob = <<>>
    /\ yield_pred = <<>>
    /\ risk_label = "none"
    /\ rendered = {}
    /\ error = "none"
    /\ risk_calls = 0
    /\ yield_calls = 0

BuildFeatures ==
    /\ latest # <<>>
    /\ risk_input = <<>>
    /\ risk_input' = <<RiskInput(latest[1], temp_delta, gdp_delta)>>
    /\ yield_input' = <<YieldInput(latest[1], temp_delta, gdp_delta)>>
    /\ UNCHANGED <<df, risk_model, yield_model, sort_kind, ran, country,
                   temp_delta, gdp_delta, country_df, latest, metrics,
                   risk_prob, yield_pred, risk_label, rendered, error,
                   risk_calls, yield_calls>>

NextBuild == BuildFeatures

SpecBuild == InitBuild /\ [][NextBuild]_vars

(***************************************************************************)
(* The labelling rule as a function: any probability in [0, 1], any shock  *)
(* in and around the sliders' ranges.                                      *)
(***************************************************************************)
Probabilities == 0..ProbOne

InitLabel ==
    /\ Unloaded
    /\ ran = FALSE
    /\ temp_delta \in TempDomain
    /\ gdp_delta \in GdpDomain
    /\ country_df = <<>>
    /\ latest = <<>>
    /\ risk_input = <<>>
    /\ yield_input = <<>>
    /\ metrics = <<>>
    /\ risk_prob \in {<<p>> : p \in Probabilities}
    /\ yield_pred = <<>>
    /\ risk_label = "none"
    /\ rendered = {}
    /\ error = "none"
    /\ risk_calls = 0
    /\ yield_calls = 0

AssessRisk ==
    /\ risk_prob # <<>>
    /\ risk_label = "none"
    /\ risk_label' = RiskLabel(risk_prob[1], temp_delta, gdp_delta)
    /\ UNCHANGED <<df, risk_model, yield_model, sort_kind, ran, country,
                   temp_delta, gdp_delta, country_df, latest, risk_input,
                   yield_input, metrics, risk_prob, yield_pred, rendered,
                   error, risk_calls, yield_calls>>

NextLabel == AssessRisk

SpecLabel == InitLabel /\ [][NextLabel]_vars

(***************************************************************************)
(* Properties.                                                             *)
(***************************************************************************)
Labelled == risk_prob # <<>> /\ risk_label # "none"

\* C1: for a probability in [0,1] and any shock, the label is HIGH_RISK if and
\* only if probability >= 0.65 and temp_delta > 0, whatever gdp_delta_percent
\* is; 0.65 with a positive temp_delta is HIGH_RISK, temp_delta = 0 never is.
C1_HighRiskIff ==
    Labelled =>
        /\ risk_label = "HIGH_RISK" <=> (risk_prob[1] >= 65 /\ temp_delta > 0)
        /\ (risk_prob[1] = 65 /\ temp_delta > 0) => risk_label = "HIGH_RISK"
        /\ temp_delta = 0 => risk_label # "HIGH_RISK"

C1_Witness ==
    /\ risk_label = "HIGH_RISK"
    /\ risk_prob = <<65>>
    /\ temp_delta = 1
    /\ gdp_delta < GdpSliderMin

\* C2: the label is LOW_RISK if and only if probability <= 0.35 and
\* temp_delta <= 0 and gdp_delta_percent >= 10; (0.35, 0, 10) is LOW_RISK, the
\* same with gdp_delta_percent just below 10 is STABLE, and no scenario with
\* temp_delta > 0 is LOW_RISK.
C2_LowRiskIff ==
    Labelled =>
        /\ risk_label = "LOW_RISK" <=>
              (risk_prob[1] <= 35 /\ temp_delta <= 0 /\ gdp_delta >= 10)
        /\ (risk_prob[1] = 35 /\ temp_delta = 0 /\ gdp_delta = 10)
              => risk_label = "LOW_RISK"
        /\ (risk_prob[1] = 35 /\ temp_delta = 0 /\ gdp_delta = 9)
              => risk_label = "STABLE"
        /\ temp_delta > 0 => risk_label # "LOW_RISK"

C2_Witness ==
    /\ risk_label = "LOW_RISK"
    /\ risk_prob = <<35>>
    /\ temp_delta = 0
    /\ gdp_delta = 10

\* C3: the rule is total and its branches exclude each other: no input meets
\* both the HIGH_RISK and the LOW_RISK condition, exactly one of the three
\* labels is produced, and it is STABLE exactly when neither condition holds.
C3_ExactlyOneBranch ==
    Labelled =>
        LET high == HighRiskBranch(risk_prob[1], temp_delta, gdp_delta)
            low == LowRiskBranch(risk_prob[1], temp_delta, gdp_delta)
        IN  /\ ~(high /\ low)
            /\ risk_label \in {"HIGH_RISK", "LOW_RISK", "STABLE"}
            /\ risk_label = "HIGH_RISK" <=> high
            /\ risk_label = "LOW_RISK" <=> low
            /\ risk_label = "STABLE" <=> (~high /\ ~low)

C3_Witness ==
    /\ risk_label = "STABLE"
    /\ risk_prob = <<90>>
    /\ temp_delta = 0
    /\ gdp_delta = 0

Built == latest # <<>> /\ risk_input # <<>> /\ yield_input # <<>>

\* C4: for every record and every shock, also outside [-2, 4] and [-20, 30],
\* both feature vectors hold avg_temp + temp_delta and
\* gdp * (1 + gdp_delta_percent / 100): each shock once, nothing clamped.
C4_ShockApplied ==
    Built =>
        /\ risk_input[1].Avg_Temp = latest[1].Avg_Temp + temp_delta
        /\ yield_input[1].Avg_Temp = latest[1].Avg_Temp + temp_delta
        /\ risk_input[1].GDP_current_US * 100
              = latest[1].GDP_current_US * (100 + gdp_delta)
        /\ yield_input[1].GDP_current_US * 100
              = latest[1].GDP_current_US * (100 + gdp_delta)

C4_Witness ==
    /\ Built
    /\ temp_delta > TempSliderMax
    /\ gdp_delta < GdpSliderMin
    /\ risk_input[1].Avg_Temp > latest[1].Avg_Temp + TempSliderMax
    /\ yield_input[1].GDP_current_US < latest[1].GDP_current_US

\* C5: every indicator of the two feature vectors other than average
\* temperature and GDP (9 of the risk vector, Temp_Volatility of the yield
\* vector) has the record's value.
C5_OthersPassThrough ==
    Built =>
        /\ DOMAIN risk_input[1] = RISK_FEATURES
        /\ DOMAIN yield_input[1] = YIELD_FEATURES
        /\ Cardinality(RISK_FEATURES \ {"Avg_Temp", "GDP_current_US"}) = 9
        /\ \A f \in RISK_FEATURES \ {"Avg_Temp", "GDP_current_US"} :
              risk_input[1][f] = latest[1][f]
        /\ yield_input[1].Temp_Volatility = latest[1].Temp_Volatility

C5_Witness ==
    /\ Built
    /\ temp_delta # 0
    /\ gdp_delta # 0
    /\ risk_input[1].Avg_Temp # latest[1].Avg_Temp
    /\ risk_input[1].GDP_current_US # latest[1].GDP_current_US
    /\ risk_input[1].population = latest[1].population

NoRecord == \A i \in 1..Len(df) : df[i].Country # country

C7_InvalidProbabilityRejected ==
    (risk_prob # <<>> /\ (risk_prob[1] < 0 \/ risk_prob[1] > 100)) =>
        /\ error = "InvalidProbabilityError"
        /\ risk_label = "none"
        /\ "label" \notin rendered

ModelFails == risk_model.kind = "raises" \/ yield_model.kind = "raises"

\* C8: a label or a yield estimate is reported only in a run where both model
\* calls succeeded; when a model call fails the failure is the run's outcome,
\* neither is reported, no label is substituted and no call is repeated.
C8_AllOrNothing ==
    ran =>
        /\ ("label" \in rendered \/ "yield" \in rendered \/ risk_label # "none")
              => (~ModelFails /\ risk_prob # <<>> /\ yield_pred # <<>>)
        /\ (latest # <<>> /\ ModelFails) =>
              /\ error = "ModelError"
              /\ "label" \notin rendered
              /\ "yield" \notin rendered
              /\ risk_label = "none"
        /\ risk_calls <= 1
        /\ yield_calls <= 1

C8_Witness ==
    /\ ran
    /\ risk_model.kind = "features"
    /\ yield_model.kind = "raises"
    /\ risk_calls = 1
    /\ yield_calls = 1
    /\ error = "ModelError"
    /\ temp_delta > 0

\* C9: a request changes neither the Record Store nor the baseline record:
\* the baseline and the metrics shown are a record of the store, unshocked,
\* the feature vectors carry this request's shock alone, and a request
\* repeated with the same country and shock gives the same vectors and label.
C9_Stateless ==
    [][ /\ df' = df
        /\ latest' # <<>> =>
              /\ \E i \in 1..Len(df) : latest'[1] = df[i]
              /\ metrics'[1].Avg_Temp = latest'[1].Avg_Temp
              /\ metrics'[1].GDP = latest'[1].GDP_current_US
              /\ risk_input'[1].Avg_Temp = latest'[1].Avg_Temp + temp_delta'
              /\ yield_input'[1].Avg_Temp = latest'[1].Avg_Temp + temp_delta'
              /\ risk_input'[1].GDP_current_US * 100
                    = latest'[1].GDP_current_US * (100 + gdp_delta')
              /\ yield_input'[1].GDP_current_US * 100
                    = latest'[1].GDP_current_US * (100 + gdp_delta')
        /\ (ran /\ country' = country /\ temp_delta' = temp_delta
                /\ gdp_delta' = gdp_delta) =>
              /\ latest' = latest
              /\ risk_input' = risk_input
              /\ yield_input' = yield_input
              /\ risk_label' = risk_label
      ]_vars

C9_Witness ==
    /\ ran
    /\ Built
    /\ temp_delta = TempSliderMax
    /\ gdp_delta = GdpSliderMax
    /\ risk_label = "HIGH_RISK"
    /\ metrics[1].Avg_Temp = latest[1].Avg_Temp
    /\ risk_input[1].Avg_Temp = latest[1].Avg_Temp + TempSliderMax

\* C10: for a country with a record, the baseline is a record of that country
\* and no record of that country has a greater year, whatever the row order.
C10_LatestYear ==
    (ran /\ ~NoRecord) =>
        /\ latest # <<>>
        /\ latest[1].Country = country
        /\ \E i \in 1..Len(df) : latest[1] = df[i]
        /\ \A i \in 1..Len(df) :
              df[i].Country = country => df[i].Year <= latest[1].Year

C10_Witness ==
    /\ ran
    /\ Len(df) >= 2
    /\ df[1].Country = country
    /\ df[2].Country = country
    /\ df[1].Year > df[2].Year
    /\ latest = <<df[1]>>

====
